---- MODULE Spec2Model ----
(***************************************************************************)
(* Model of webill_gimbal/main.py: the WeebillS session (sequence counter, *)
(* transport client, discovered characteristics), the outbound frame       *)
(* builder generate_command with its XMODEM CRC-16, and the inbound        *)
(* notification_handler that matches on the hex text of a frame.           *)
(***************************************************************************)
EXTENDS Integers, Sequences, FiniteSets, TLC

VARIABLES
  increment,                               \* self.increment
  client,                                  \* self.client
  characteristic_write_without_response,   \* uuid found by connect, or None
  characteristic_notify,                   \* uuid found by connect, or None
  notifying,        \* the client delivers notifications to notification_handler
  calls,            \* generate_command calls made so far
  last,             \* the last operation, its arguments and what it gave
  first_call,       \* the first generate_command call of the session
  first_notification,  \* the first notification the session handled
  transport,        \* write_gatt_char calls so far, and the bytes of the last
  tasks             \* each caller's place in the named action it runs

vars == <<increment, client, characteristic_write_without_response,
          characteristic_notify, notifying, calls, last, first_call,
          first_notification, transport, tasks>>

session == <<increment, client, characteristic_write_without_response,
             characteristic_notify>>

(***************************************************************************)
(* Bounds of the model.                                                    *)
(***************************************************************************)
\* generate_command calls explored in a session with every operation
MaxCalls == 3
\* generate_command calls explored in a session that only builds frames:
\* enough to pass the wrap of the sequence byte and meet a value again
MaxWrapCalls == 257
\* bytes that follow the (possibly truncated) header of an inbound frame
MaxTail == 3
\* tasks that call named actions on the one session
NumTasks == 2
\* named actions invoked in a session, by all tasks together
MaxInvocations == 2

(***************************************************************************)
(* Bit arithmetic on machine integers.                                     *)
(***************************************************************************)
RECURSIVE BitXor(_, _)
BitXor(a, b) ==
  IF a = 0 THEN b
  ELSE IF b = 0 THEN a
  ELSE ((a + b) % 2) + 2 * BitXor(a \div 2, b \div 2)

RECURSIVE Pow2(_)
Pow2(n) == IF n = 0 THEN 1 ELSE 2 * Pow2(n - 1)

ShiftLeft(a, n) == a * Pow2(n)
ShiftRight(a, n) == a \div Pow2(n)
Mask16(a) == a % 65536
Mask8(a) == a % 256

(***************************************************************************)
(* crcmod's predefined "xmodem" CRC: polynomial 0x11021, initial value 0,  *)
(* not reflected, no final XOR, computed bytewise from a 256 entry table.  *)
(***************************************************************************)
XMODEM_POLY == 69665

RECURSIVE TableEntryBits(_, _)
TableEntryBits(crc, n) ==
  IF n = 0 THEN crc
  ELSE TableEntryBits(
         IF crc >= 32768
           THEN BitXor(Mask16(ShiftLeft(crc, 1)), Mask16(XMODEM_POLY))
           ELSE Mask16(ShiftLeft(crc, 1)),
         n - 1)

crc_table == [i \in 0..255 |-> TableEntryBits(ShiftLeft(i, 8), 8)] @@ <<>>

RECURSIVE CrcUpdate(_, _, _)
CrcUpdate(crc, data, i) ==
  IF i > Len(data) THEN crc
  ELSE LET next == BitXor(crc_table[BitXor(data[i], Mask8(ShiftRight(crc, 8)))],
                          Mask16(ShiftLeft(crc, 8)))
       IN  \* the register is 16 bits wide
           IF next \in 0..65535 THEN CrcUpdate(next, data, i + 1) ELSE Mask16(next)

\* the same table driven from the initial value 0xFFFF (CRC-16/CCITT-FALSE)
crc16_ccitt_false(data) == CrcUpdate(65535, data, 1)

crc16_xmodem(data) == CrcUpdate(0, data, 1)

(***************************************************************************)
(* Module constants.                                                       *)
(***************************************************************************)
COMMAND_PREFIX == <<36, 60, 8, 0, 24, 18>>
NO_ARGUMENT == <<0, 0, 0>>

TILT == 1
PAN == 2
ROLL == 3
GET_BATTERY_SET_TILT_POS == 6

None == "None"
MAC_ADDRESS == "mac"

(***************************************************************************)
(* The frame generate_command builds for counter value inc.                *)
(***************************************************************************)
\* the constant 0x01 and the command byte in each other's place
output_array_command_first(command, data, inc) ==
  COMMAND_PREFIX \o <<inc, command, 1>> \o data

output_array(command, data, inc) ==
  COMMAND_PREFIX \o <<inc, 1, command>> \o data

\* output_array[4:]
crc_segment(arr) == SubSeq(arr, 5, Len(arr))

CrcBytes(crc) == <<crc % 256, ShiftRight(crc, 8)>>

\* the sequence byte taken from the counter itself, cut to a byte
output_of_counter(command, data, inc) ==
  LET arr == output_array(command, data, increment % 256)
  IN  arr \o CrcBytes(crc16_xmodem(crc_segment(arr)))

output(command, data, inc) ==
  LET arr == output_array(command, data, inc)
  IN  arr \o CrcBytes(crc16_xmodem(crc_segment(arr)))

(***************************************************************************)
(* binascii.hexlify(data).decode(): two lowercase hex digits per byte.     *)
(* Text is a sequence of one-character strings.                            *)
(***************************************************************************)
HEX_DIGITS ==
  <<"0", "1", "2", "3", "4", "5", "6", "7",
    "8", "9", "a", "b", "c", "d", "e", "f">>

RECURSIVE hexlify(_)
hexlify(data) ==
  IF data = <<>> THEN <<>>
  ELSE <<HEX_DIGITS[(Head(data) \div 16) + 1], HEX_DIGITS[(Head(data) % 16) + 1]>>
       \o hexlify(Tail(data))

\* str.startswith
startswith(text, prefix) ==
  /\ Len(text) >= Len(prefix)
  /\ SubSeq(text, 1, Len(prefix)) = prefix

IndexError == <<"IndexError">>

Min(a, b) == IF a < b THEN a ELSE b

\* text[lo] + text[lo + 1]: indexing raises past the end of the text
index_pair(text, lo, hi) ==
  IF hi > Len(text) THEN IndexError ELSE SubSeq(text, lo + 1, hi)

\* text[lo:hi]: a slice is cut to the text, and never raises
slice(text, lo, hi) == SubSeq(text, Min(lo, Len(text)) + 1, Min(hi, Len(text)))

HEARTBEAT_HEX == <<"2", "4", "3", "e", "0", "c", "0", "0", "1", "8", "1", "5">>
COMMAND_HEX == <<"2", "4", "3", "c", "0", "8", "0", "0", "1", "8", "1", "2">>
ACK_HEX == <<"1", "0">>
BATTERY_HEX == <<"0", "6">>

(***************************************************************************)
(* notification_handler: the statement it ends at, and how it ends.        *)
(*   heartbeat : the return under the heartbeat test                       *)
(*   battery   : the pass under the test of command 06                     *)
(*   ack       : marker 10 found, the command is not 06                    *)
(*   unmatched : a command header without the marker, or no known header   *)
(***************************************************************************)
\* the marker looked for one byte early, at offset 6
handled_as_command_offset_6(decoded_data) ==
  LET marker == slice(decoded_data, 12, 14)
      cmd == slice(decoded_data, 16, 18)
  IN  IF marker = ACK_HEX
        THEN IF cmd = BATTERY_HEX THEN "battery" ELSE "ack"
        ELSE "unmatched"

\* a command other than 06 dropped with the frames that match nothing
handled_as_command_battery_only(decoded_data) ==
  IF slice(decoded_data, 14, 16) = ACK_HEX /\ slice(decoded_data, 16, 18) = BATTERY_HEX
    THEN "battery"
    ELSE "unmatched"

handled_as_command(decoded_data) ==
  LET marker == slice(decoded_data, 14, 16)
      cmd == slice(decoded_data, 16, 18)
  IN  IF marker = IndexError THEN "raise"
      ELSE IF marker = ACK_HEX
        THEN IF cmd = IndexError THEN "raise"
             ELSE IF cmd = BATTERY_HEX THEN "battery" ELSE "ack"
        ELSE "unmatched"

\* the heartbeat test as an equality: a frame of the header alone
handled_exact_heartbeat(decoded_data) ==
  IF decoded_data = HEARTBEAT_HEX THEN "heartbeat"
  ELSE IF startswith(decoded_data, COMMAND_HEX) THEN handled_as_command(decoded_data)
  ELSE "unmatched"

\* a response counts only when it carries the sequence byte of the last command
handled_matching_sequence(decoded_data) ==
  IF startswith(decoded_data, HEARTBEAT_HEX) THEN "heartbeat"
  ELSE IF /\ startswith(decoded_data, COMMAND_HEX)
          /\ slice(decoded_data, 12, 14) = hexlify(<<(increment - 1) % 255>>)
    THEN handled_as_command(decoded_data)
  ELSE "unmatched"

handled(decoded_data) ==
  IF startswith(decoded_data, HEARTBEAT_HEX) THEN "heartbeat"
  ELSE IF startswith(decoded_data, COMMAND_HEX) THEN handled_as_command(decoded_data)
  ELSE "unmatched"

\* the category of the inbound frame that each end of the handler stands for
category(branch) ==
  CASE branch = "heartbeat" -> "Heartbeat"
    [] branch \in {"battery", "ack"} -> "CommandResponse"
    [] branch = "unmatched" -> "Unrecognized"
    [] OTHER -> "raised"

(***************************************************************************)
(* Inputs.                                                                 *)
(***************************************************************************)
Commands == {PAN, 255}

Payloads == {<<>>, NO_ARGUMENT, <<16, 194, 17, 255, 128>>}

HEARTBEAT_PREFIX == <<36, 62, 12, 0, 24, 21>>

RECURSIVE SeqsUpTo(_, _)
SeqsUpTo(S, n) ==
  IF n = 0 THEN {<<>>}
  ELSE LET shorter == SeqsUpTo(S, n - 1)
       IN  shorter \cup {<<b>> \o t : b \in S, t \in {u \in shorter : Len(u) = n - 1}}

\* what an inbound frame starts with: a header, whole or cut short, or neither
Heads ==
  {SubSeq(HEARTBEAT_PREFIX, 1, n) : n \in 0..6}
    \cup {SubSeq(COMMAND_PREFIX, 1, n) : n \in 0..6}
    \cup {<<222, 173, 190, 239>>}

\* ack marker, battery command, the constant of an outbound frame
TailBytes == {16, 6, 1}

Inbound == {h \o t : h \in Heads, t \in SeqsUpTo(TailBytes, MaxTail)}

\* the frames a device sends in a session
Replies ==
  { <<>>,
    <<222, 173, 190, 239>>,
    SubSeq(HEARTBEAT_PREFIX, 1, 5),
    HEARTBEAT_PREFIX,
    HEARTBEAT_PREFIX \o <<16, 6, 100>>,
    COMMAND_PREFIX,
    COMMAND_PREFIX \o <<2>>,
    COMMAND_PREFIX \o <<2, 16>>,
    COMMAND_PREFIX \o <<2, 1, 6, 0, 0, 0>>,
    COMMAND_PREFIX \o <<2, 16, 6, 100, 0, 0>>,
    COMMAND_PREFIX \o <<3, 16, 2, 16, 194, 17>> }

\* the GATT tables a device may show: characteristics with their properties
Services ==
  { <<>>,
    <<[uuid |-> "d44bc439", properties |-> {"write-without-response"}]>>,
    <<[uuid |-> "d44bc439", properties |-> {"write-without-response", "write"}],
      [uuid |-> "d44bc43a", properties |-> {"notify"}]>> }

NoCall == [op |-> "__init__", command |-> 0, data |-> <<>>, output |-> <<>>,
           branch |-> ""]

NoNotification == [op |-> "__init__", data |-> <<>>, branch |-> "", increment |-> 0]

Tasks == 1..NumTasks

\* a task outside any named action
Idle == [pc |-> "idle", action |-> "", data |-> <<>>, built |-> 0, sent |-> 0]

(***************************************************************************)
(* WeebillS.__init__                                                       *)
(***************************************************************************)
Init ==
  /\ increment = 2
  /\ client = [address |-> MAC_ADDRESS, is_connected |-> FALSE]
  /\ characteristic_write_without_response = None
  /\ characteristic_notify = None
  /\ notifying = FALSE
  /\ calls = 0
  /\ last = NoCall
  /\ first_call = NoCall
  /\ first_notification = NoNotification
  /\ transport = [writes |-> 0, data |-> <<>>]
  /\ tasks = [t \in Tasks |-> Idle]

(***************************************************************************)
(* WeebillS.generate_command                                               *)
(***************************************************************************)
\* the counter cut to a byte: 0x100 where the code has 0xFF
inc_mod_256(counter) == counter % 256

inc_of(counter) == counter % 255

generate_command(command, data) ==
  LET inc == inc_of(increment)
  IN  /\ increment' = increment + 1
      /\ calls' = calls + 1
      /\ last' = [op |-> "generate_command", command |-> command, data |-> data,
                  output |-> output(command, data, inc), branch |-> ""]
      /\ UNCHANGED <<client, characteristic_write_without_response,
                     characteristic_notify, notifying>>

(***************************************************************************)
(* WeebillS.send_command                                                   *)
(***************************************************************************)
send_command(data) ==
  /\ client.is_connected
  /\ characteristic_write_without_response # None
  /\ transport' = [writes |-> transport.writes + 1, data |-> data]
  /\ last' = [op |-> "send_command", command |-> 0, data |-> data,
              output |-> <<>>, branch |-> ""]
  /\ UNCHANGED <<increment, client, characteristic_write_without_response,
                 characteristic_notify, notifying, calls>>

(***************************************************************************)
(* WeebillS.connect                                                        *)
(***************************************************************************)
RECURSIVE discovered(_, _, _)
discovered(found, services, property) ==
  IF services = <<>> THEN found
  ELSE discovered(
         IF property \in Head(services).properties THEN Head(services).uuid ELSE found,
         Tail(services), property)

\* a connect that starts the session over, counter included
connect_resets(services) ==
  /\ ~client.is_connected
  /\ client' = [client EXCEPT !.is_connected = TRUE]
  /\ characteristic_write_without_response' =
       discovered(characteristic_write_without_response, services,
                  "write-without-response")
  /\ characteristic_notify' = discovered(characteristic_notify, services, "notify")
  /\ notifying' = (characteristic_notify' # None)
  /\ last' = [NoCall EXCEPT !.op = "connect"]
  /\ increment' = 2
  /\ UNCHANGED calls

connect(services) ==
  /\ ~client.is_connected
  /\ client' = [client EXCEPT !.is_connected = TRUE]
  /\ characteristic_write_without_response' =
       discovered(characteristic_write_without_response, services,
                  "write-without-response")
  /\ characteristic_notify' = discovered(characteristic_notify, services, "notify")
  /\ notifying' = (characteristic_notify' # None)
  /\ last' = [NoCall EXCEPT !.op = "connect"]
  /\ UNCHANGED <<increment, calls>>

(***************************************************************************)
(* WeebillS.disconnect                                                     *)
(***************************************************************************)
disconnect ==
  /\ client.is_connected
  /\ client' = [client EXCEPT !.is_connected = FALSE]
  /\ notifying' = FALSE
  /\ last' = [NoCall EXCEPT !.op = "disconnect"]
  /\ UNCHANGED <<increment, characteristic_write_without_response,
                 characteristic_notify, calls>>

(***************************************************************************)
(* WeebillS.notification_handler                                           *)
(***************************************************************************)
\* a handler that starts the counter again on a heartbeat
notification_handler_resets(data) ==
  /\ last' = [op |-> "notification_handler", command |-> 0, data |-> data,
              output |-> <<>>, branch |-> handled(hexlify(data))]
  /\ increment' = IF handled(hexlify(data)) = "heartbeat" THEN 2 ELSE increment
  /\ UNCHANGED <<client, characteristic_write_without_response,
                 characteristic_notify, notifying, calls>>

notification_handler(data) ==
  /\ last' = [op |-> "notification_handler", command |-> 0, data |-> data,
              output |-> <<>>, branch |-> handled(hexlify(data))]
  /\ UNCHANGED <<increment, client, characteristic_write_without_response,
                 characteristic_notify, notifying, calls>>

(***************************************************************************)
(* The named actions: pan_right .. read_battery.  Each is a coroutine that *)
(* awaits generate_command, which never suspends, and then send_command,   *)
(* which suspends in write_gatt_char; read_battery then sleeps.            *)
(***************************************************************************)
Actions ==
  {"pan_right", "pan_left", "tilt_up", "tilt_down", "roll_right", "roll_left",
   "read_battery"}

action_command(action) ==
  CASE action \in {"pan_right", "pan_left"} -> PAN
    [] action \in {"tilt_up", "tilt_down"} -> TILT
    [] action \in {"roll_right", "roll_left"} -> ROLL
    [] action = "read_battery" -> GET_BATTERY_SET_TILT_POS

\* the direction bytes in each other's place
action_data_swapped(action) ==
  CASE action \in {"pan_right", "tilt_up", "roll_right"} -> <<16, 194, 1>>
    [] action \in {"pan_left", "tilt_down", "roll_left"} -> <<16, 194, 17>>
    [] action = "read_battery" -> NO_ARGUMENT

action_data(action) ==
  CASE action \in {"pan_right", "tilt_up", "roll_right"} -> <<16, 194, 17>>
    [] action \in {"pan_left", "tilt_down", "roll_left"} -> <<16, 194, 1>>
    [] action = "read_battery" -> NO_ARGUMENT

\* the frame built once for the log and once more for the write
invoke_builds_twice(t, action) ==
  LET data == output(action_command(action), action_data(action),
                     inc_of(increment + 1))
      writable == client.is_connected /\ characteristic_write_without_response # None
  IN  /\ tasks[t].pc = "idle"
      /\ increment' = increment + 2
      /\ calls' = calls + 2
      /\ transport' = [writes |-> transport.writes + 1, data |-> data]
      /\ last' = [op |-> action, command |-> action_command(action),
                  data |-> action_data(action), output |-> data, branch |-> ""]
      /\ tasks' = [tasks EXCEPT ![t] =
                     IF writable
                       THEN [pc |-> "write", action |-> action, data |-> data,
                             built |-> calls + 2, sent |-> transport.writes + 1]
                       ELSE Idle]
      /\ UNCHANGED <<client, characteristic_write_without_response,
                     characteristic_notify, notifying>>

\* generate_command with a suspension between reading the counter and
\* storing it back: the task keeps the value it read in its built field
invoke_suspends_in_build(t, action) ==
  \/ /\ tasks[t].pc = "idle"
     /\ tasks' = [tasks EXCEPT ![t] =
                    [Idle EXCEPT !.pc = "build", !.action = action,
                                 !.built = increment]]
     /\ UNCHANGED <<increment, client, characteristic_write_without_response,
                    characteristic_notify, notifying, calls, last, transport>>
  \/ LET read == tasks[t].built
         data == output(action_command(action), action_data(action), inc_of(read))
     IN  /\ tasks[t].pc = "build"
         /\ tasks[t].action = action
         /\ increment' = read + 1
         /\ calls' = calls + 1
         /\ transport' = [writes |-> transport.writes + 1, data |-> data]
         /\ last' = [op |-> action, command |-> action_command(action),
                     data |-> action_data(action), output |-> data, branch |-> ""]
         /\ tasks' = [tasks EXCEPT ![t] =
                        [pc |-> "write", action |-> action, data |-> data,
                         built |-> calls + 1, sent |-> transport.writes + 1]]
         /\ UNCHANGED <<client, characteristic_write_without_response,
                        characteristic_notify, notifying>>

\* a suspension between generate_command and the call of write_gatt_char
invoke_suspends_before_write(t, action) ==
  \/ LET data == output(action_command(action), action_data(action),
                        inc_of(increment))
     IN  /\ tasks[t].pc = "idle"
         /\ increment' = increment + 1
         /\ calls' = calls + 1
         /\ last' = [op |-> action, command |-> action_command(action),
                     data |-> action_data(action), output |-> data, branch |-> ""]
         /\ tasks' = [tasks EXCEPT ![t] =
                        [pc |-> "built", action |-> action, data |-> data,
                         built |-> calls + 1, sent |-> 0]]
         /\ UNCHANGED <<client, characteristic_write_without_response,
                        characteristic_notify, notifying, transport>>
  \/ /\ tasks[t].pc = "built"
     /\ tasks[t].action = action
     /\ transport' = [writes |-> transport.writes + 1, data |-> tasks[t].data]
     /\ tasks' = [tasks EXCEPT ![t] =
                    [tasks[t] EXCEPT !.pc = "write", !.sent = transport.writes + 1]]
     /\ UNCHANGED <<increment, client, characteristic_write_without_response,
                    characteristic_notify, notifying, calls, last>>

\* A task enters a named action and runs it to its first suspension: the
\* frame is built and write_gatt_char is called with it.  A client that is
\* not connected, or has no characteristic to write to, raises there, and
\* the action ends.
invoke(t, action) ==
  LET inc == inc_of(increment)
      data == output(action_command(action), action_data(action), inc)
      writable == client.is_connected /\ characteristic_write_without_response # None
  IN  /\ tasks[t].pc = "idle"
      /\ increment' = increment + 1
      /\ calls' = calls + 1
      /\ transport' = [writes |-> transport.writes + 1, data |-> data]
      /\ last' = [op |-> action, command |-> action_command(action),
                  data |-> action_data(action), output |-> data, branch |-> ""]
      /\ tasks' = [tasks EXCEPT ![t] =
                     IF writable
                       THEN [pc |-> "write", action |-> action, data |-> data,
                             built |-> calls + 1, sent |-> transport.writes + 1]
                       ELSE Idle]
      /\ UNCHANGED <<client, characteristic_write_without_response,
                     characteristic_notify, notifying>>

\* write_gatt_char ends: read_battery goes on to its sleep, the other
\* actions return; on a client disconnected meanwhile the write raises
write_done(t) ==
  /\ tasks[t].pc = "write"
  /\ tasks' = [tasks EXCEPT ![t] =
                 IF client.is_connected /\ tasks[t].action = "read_battery"
                   THEN [tasks[t] EXCEPT !.pc = "sleep"]
                   ELSE Idle]
  /\ UNCHANGED <<increment, client, characteristic_write_without_response,
                 characteristic_notify, notifying, calls, last, transport>>

\* a read_battery that waits for the battery response instead of a timer
sleep_done_awaits_response(t) ==
  /\ tasks[t].pc = "sleep"
  /\ last.op = "notification_handler"
  /\ last.branch = "battery"
  /\ tasks' = [tasks EXCEPT ![t] = Idle]
  /\ UNCHANGED <<increment, client, characteristic_write_without_response,
                 characteristic_notify, notifying, calls, last, transport>>

\* asyncio.sleep(1) ends, and read_battery returns
sleep_done(t) ==
  /\ tasks[t].pc = "sleep"
  /\ tasks' = [tasks EXCEPT ![t] = Idle]
  /\ UNCHANGED <<increment, client, characteristic_write_without_response,
                 characteristic_notify, notifying, calls, last, transport>>

(***************************************************************************)
(* A session driven through every operation.                               *)
(***************************************************************************)
GenerateCommand ==
  /\ calls < MaxCalls
  /\ \E command \in Commands, data \in Payloads : generate_command(command, data)
  /\ UNCHANGED <<first_call, first_notification, transport, tasks>>

SendCommand ==
  /\ last.op = "generate_command"
  /\ send_command(last.output)
  /\ UNCHANGED <<first_call, first_notification, tasks>>

Connect ==
  /\ \E services \in Services : connect(services)
  /\ UNCHANGED <<first_call, first_notification, transport, tasks>>

Disconnect ==
  /\ disconnect
  /\ UNCHANGED <<first_call, first_notification, transport, tasks>>

Notify ==
  /\ notifying
  /\ \E data \in Replies : notification_handler(data)
  /\ first_notification' =
       IF first_notification.op = "__init__"
         THEN [op |-> last'.op, data |-> last'.data, branch |-> last'.branch,
               increment |-> increment]
         ELSE first_notification
  /\ UNCHANGED <<first_call, transport, tasks>>

Next == GenerateCommand \/ SendCommand \/ Connect \/ Disconnect \/ Notify

Spec == Init /\ [][Next]_vars

(***************************************************************************)
(* A session that only builds frames, past the wrap of the sequence byte.  *)
(***************************************************************************)
Encode ==
  /\ calls < MaxWrapCalls
  /\ \E command \in Commands, data \in Payloads : generate_command(command, data)
  /\ first_call' = IF calls = 0 THEN last' ELSE first_call
  /\ UNCHANGED <<first_notification, transport, tasks>>

SpecEncode == Init /\ [][Encode]_vars

(***************************************************************************)
(* The handler applied to inbound frames, one after another.               *)
(***************************************************************************)
Classify ==
  /\ \E data \in Inbound : notification_handler(data)
  /\ UNCHANGED <<first_call, first_notification, transport, tasks>>

SpecClassify == Init /\ [][Classify]_vars

(***************************************************************************)
(* Tasks that run named actions on one session, under the event loop:      *)
(* a task runs from one suspension to the next without interruption.       *)
(***************************************************************************)
\* the frames a device sends while actions run
Responses ==
  { HEARTBEAT_PREFIX,
    COMMAND_PREFIX \o <<2, 16, 6, 100, 0, 0>>,
    COMMAND_PREFIX \o <<2, 16, 2, 16, 194, 17>> }

Invoke ==
  /\ calls < MaxInvocations
  /\ \E t \in Tasks, action \in Actions : invoke(t, action)
  /\ UNCHANGED <<first_call, first_notification>>

WriteDone ==
  /\ \E t \in Tasks : write_done(t)
  /\ UNCHANGED <<first_call, first_notification>>

SleepDoneOf(t) ==
  /\ sleep_done(t)
  /\ UNCHANGED <<first_call, first_notification>>

SleepDone == \E t \in Tasks : SleepDoneOf(t)

Respond ==
  /\ notifying
  /\ \E data \in Responses : notification_handler(data)
  /\ UNCHANGED <<first_call, first_notification, transport, tasks>>

NextTasks == Connect \/ Disconnect \/ Invoke \/ WriteDone \/ SleepDone \/ Respond

SpecTasks == Init /\ [][NextTasks]_vars

\* the event loop runs a timer that is due: a sleep that can end does end
FairSpecTasks == SpecTasks /\ \A t \in Tasks : WF_vars(SleepDoneOf(t))

(***************************************************************************)
(* Properties.                                                             *)
(***************************************************************************)
Generated == last.op = "generate_command"
Notified == last.op = "notification_handler"

\* the byte at an offset of a frame, offsets counted from 0
At(frame, offset) == frame[offset + 1]

\* C1: on a fresh session the k-th generate_command call puts
\* (2 + k - 1) mod 255 at offset 6 of its frame: 2, 3, ..., 254, 0, 1, 2, ...;
\* the frame after the one that carries 254 carries 0.
C1_SequenceBytes ==
  Generated =>
    /\ At(last.output, 6) = (2 + calls - 1) % 255
    /\ (calls <= 253 => At(last.output, 6) = calls + 1)
    /\ (calls = 254 => At(last.output, 6) = 0)
    /\ (calls \in 255..508 => At(last.output, 6) = calls - 254)

C1_Witness == Generated /\ calls = 254 /\ At(last.output, 6) = 0

\* CRC-16/XMODEM by its definition: a 16 bit register, initially 0, fed the
\* message bit by bit, high bit of each byte first, and XORed with 0x1021
\* whenever the bit shifted out differs from the bit fed in; no final XOR.
RefCrcBit(reg, bit) ==
  LET shifted == (reg * 2) % 65536
  IN  IF (reg \div 32768) # bit THEN BitXor(shifted, 4129) ELSE shifted

\* one byte of the message, its bits from 7 down to 0
RefCrcByte(reg, byte) ==
  LET bit(k) == (byte \div Pow2(k)) % 2
  IN  RefCrcBit(RefCrcBit(RefCrcBit(RefCrcBit(
        RefCrcBit(RefCrcBit(RefCrcBit(RefCrcBit(reg,
          bit(7)), bit(6)), bit(5)), bit(4)), bit(3)), bit(2)), bit(1)), bit(0))

RECURSIVE RefCrcFrom(_, _)
RefCrcFrom(reg, bytes) ==
  IF bytes = <<>> THEN reg
  ELSE LET next == RefCrcByte(reg, Head(bytes))
       IN  IF next \in 0..65535 THEN RefCrcFrom(next, Tail(bytes)) ELSE -1

RefCrc(bytes) == RefCrcFrom(0, bytes)

\* C2: the last two bytes of every frame generate_command returns are the
\* CRC-16/XMODEM of the frame bytes from offset 4 up to those two bytes,
\* low byte first, then high byte, for every command, payload and sequence
\* value.
C2_ChecksumField ==
  Generated =>
    LET frame == last.output
        n == Len(frame)
        crc == RefCrc(SubSeq(frame, 5, n - 2))
    IN  /\ n >= 11
        /\ frame[n - 1] = crc % 256
        /\ frame[n] = crc \div 256

\* the frame of the source's comment: 243c 0800 1812 01 01 02 000000 6f76
C2_Witness ==
  /\ Generated
  /\ last.output = <<36, 60, 8, 0, 24, 18, 1, 1, 2, 0, 0, 0, 111, 118>>

\* C3: the frame is 24 3C 08 00 18 12, the sequence value, 01, the command
\* byte, the payload unchanged, then two checksum bytes: 11 + len(payload)
\* bytes, the command at offset 8, the payload at offsets 9..8+len(payload).
C3_FrameLayout ==
  Generated =>
    LET frame == last.output
        P == last.data
    IN  /\ Len(frame) = 11 + Len(P)
        /\ SubSeq(frame, 1, 6) = <<36, 60, 8, 0, 24, 18>>
        /\ At(frame, 6) = (increment - 1) % 255
        /\ At(frame, 7) = 1
        /\ At(frame, 8) = last.command
        /\ \A i \in 1..Len(P) : At(frame, 8 + i) = P[i]

C3_Witness ==
  /\ Generated
  /\ last.command = 255
  /\ Len(last.data) = 5
  /\ Len(last.output) = 16
  /\ SubSeq(last.output, 10, 14) = last.data

Categories == {"Heartbeat", "CommandResponse", "Unrecognized"}

HasHeader(data, header) == Len(data) >= 6 /\ SubSeq(data, 1, 6) = header

\* C4: the handler ends normally, in one of the three categories, on every
\* inbound byte sequence of every length from 0 up, also on one with a
\* command header and no byte at offset 7 or 8; a sequence too short to
\* match a header pattern is Unrecognized.
C4_Total ==
  Notified =>
    /\ category(last.branch) \in Categories
    /\ (Len(last.data) < 6 => category(last.branch) = "Unrecognized")

C4_Witness ==
  /\ Notified
  /\ HasHeader(last.data, <<36, 60, 8, 0, 24, 18>>)
  /\ Len(last.data) = 7
  /\ category(last.branch) = "Unrecognized"

\* C5: every inbound sequence whose first 6 bytes are 24 3E 0C 00 18 15 is a
\* Heartbeat, whatever follows and however much.
C5_Heartbeat ==
  (Notified /\ HasHeader(last.data, <<36, 62, 12, 0, 24, 21>>))
    => category(last.branch) = "Heartbeat"

C5_Witness ==
  /\ Notified
  /\ last.data = <<36, 62, 12, 0, 24, 21, 1, 16, 6>>
  /\ category(last.branch) = "Heartbeat"

\* C6: a frame with the header 24 3C 08 00 18 12 is a CommandResponse only
\* if its byte at offset 7 is 0x10, and Unrecognized if that byte differs or
\* is absent; with the marker, the command looked at is the byte at offset
\* 8, and 0x06 is the one command the handler knows.
C6_AckMarker ==
  (Notified /\ HasHeader(last.data, <<36, 60, 8, 0, 24, 18>>)) =>
    LET data == last.data
        acked == Len(data) >= 8 /\ At(data, 7) = 16
    IN  /\ (category(last.branch) = "CommandResponse") <=> acked
        /\ ~acked => category(last.branch) = "Unrecognized"
        /\ (last.branch = "battery") <=> (acked /\ Len(data) >= 9 /\ At(data, 8) = 6)

C6_Witness ==
  /\ Notified
  /\ last.data = <<36, 60, 8, 0, 24, 18, 16, 1, 6>>
  /\ category(last.branch) = "Unrecognized"

\* C7: a frame with the command header, the marker 0x10 at offset 7 and a
\* command at offset 8 other than 0x06 is a CommandResponse from which
\* nothing is extracted: the handler neither fails on it nor leaves it
\* Unrecognized.
C7_UnknownOpcode ==
  ( /\ Notified
    /\ HasHeader(last.data, <<36, 60, 8, 0, 24, 18>>)
    /\ Len(last.data) >= 9
    /\ At(last.data, 7) = 16
    /\ At(last.data, 8) # 6 )
    => (last.branch = "ack" /\ category(last.branch) = "CommandResponse")

C7_Witness ==
  /\ Notified
  /\ last.data = <<36, 60, 8, 0, 24, 18, 6, 16, 1>>
  /\ last.branch = "ack"

\* C8: handling a notification leaves the counter, the client and both
\* characteristic identifiers as they were, so the sequence byte of a later
\* frame counts the generate_command calls alone, whatever was notified
\* between them.
C8_HandlerKeepsSession ==
  [][ /\ (last'.op = "notification_handler" => UNCHANGED session)
      /\ (calls' = calls + 1 => At(last'.output, 6) = (2 + calls) % 255) ]_vars

C8_Witness ==
  /\ Notified
  /\ last.branch = "heartbeat"
  /\ calls = 2
  /\ increment = 4
  /\ client.is_connected
  /\ characteristic_notify # None

\* C9: the same bytes handled twice fall in the same category, whatever the
\* counter is and whatever was handled or encoded before or between.
C9_SameBytesSameCategory ==
  ( /\ Notified
    /\ first_notification.op = "notification_handler"
    /\ last.data = first_notification.data )
    => category(last.branch) = category(first_notification.branch)

C9_Witness ==
  /\ Notified
  /\ first_notification.op = "notification_handler"
  /\ last.data = first_notification.data
  /\ last.data = <<36, 60, 8, 0, 24, 18, 3, 16, 2, 16, 194, 17>>
  /\ increment > first_notification.increment
  /\ category(last.branch) = "CommandResponse"

\* C10: two generate_command calls given the same command, the same payload
\* and the same sequence value return the same bytes.
C10_SameArgumentsSameFrame ==
  ( /\ Generated
    /\ calls > 1
    /\ last.command = first_call.command
    /\ last.data = first_call.data
    /\ (increment - 1) % 255 = 2 )
    => last.output = first_call.output

C10_Witness ==
  /\ Generated
  /\ calls = 256
  /\ last.command = first_call.command
  /\ last.data = first_call.data
  /\ Len(last.data) = 5
  /\ last.output = first_call.output

\* C11: the counter starts at 2 and is 2 + n after n generate_command calls:
\* each call adds exactly 1, whatever its command and payload, and connect,
\* disconnect, send_command and notification_handler leave it alone; the
\* sequence byte of a frame is the counter before the call, mod 255.
C11_CounterCountsCalls ==
  /\ [](increment = 2 + calls)
  /\ [][ IF last'.op = "generate_command" /\ calls' = calls + 1
           THEN /\ increment' = increment + 1
                /\ At(last'.output, 6) = increment % 255
           ELSE increment' = increment ]_vars

C11_Witness ==
  /\ last.op = "disconnect"
  /\ first_notification.op = "notification_handler"
  /\ characteristic_write_without_response # None
  /\ calls = 3
  /\ increment = 5

\* C12: the sequence byte at offset 6 of every frame is in 0..254, after any
\* number of calls: 255 is never sent as a sequence byte.
C12_SequenceByteRange ==
  Generated => (At(last.output, 6) \in 0..254 /\ At(last.output, 6) # 255)

C12_Witness ==
  /\ Generated
  /\ increment = 256
  /\ last.data = <<>>
  /\ At(last.output, 6) = 0

InFlight(t) == tasks[t].pc # "idle"

\* the table of named actions: command byte, then payload
Catalog ==
  [ pan_right |-> <<2, <<16, 194, 17>>>>,
    pan_left |-> <<2, <<16, 194, 1>>>>,
    tilt_up |-> <<1, <<16, 194, 17>>>>,
    tilt_down |-> <<1, <<16, 194, 1>>>>,
    roll_right |-> <<3, <<16, 194, 17>>>>,
    roll_left |-> <<3, <<16, 194, 1>>>>,
    read_battery |-> <<6, <<0, 0, 0>>>> ]

\* C13: each named action builds its frame from its fixed pair of command
\* byte and payload, whatever the state of the session: the command is at
\* offset 8 and the payload at offsets 9..11 of the frame sent.
C13_Catalog ==
  last.op \in Actions =>
    /\ last.op \in DOMAIN Catalog
    /\ Len(transport.data) = 14
    /\ At(transport.data, 8) = Catalog[last.op][1]
    /\ SubSeq(transport.data, 10, 12) = Catalog[last.op][2]

C13_Witness ==
  /\ last.op = "roll_left"
  /\ calls = 2
  /\ SubSeq(transport.data, 7, 12) = <<3, 1, 3, 16, 194, 1>>

\* C14: every invocation of a named action makes exactly one
\* generate_command call and then exactly one transport write: the counter
\* advances by exactly 1, the bytes given to the transport are the frame
\* generate_command returned, and no write goes without a sequence value
\* taken for it.
C14_OneBuildOneWrite ==
  /\ [](calls = transport.writes)
  /\ [][ (calls' # calls \/ increment' # increment \/ transport' # transport) =>
           /\ last'.op \in Actions
           /\ calls' = calls + 1
           /\ increment' = increment + 1
           /\ transport'.writes = transport.writes + 1
           /\ transport'.data = last'.output
           /\ At(transport'.data, 6) = increment % 255 ]_vars

C14_Witness ==
  /\ last.op = "read_battery"
  /\ calls = 2
  /\ transport.writes = 2
  /\ transport.data = last.output
  /\ \E t \in Tasks : tasks[t].pc = "write" /\ tasks[t].data = transport.data

\* C15: with several tasks in named actions at once, no two builds see the
\* same counter value and no increment is lost: after n builds the counter
\* is 2 + n, with no lock.
C15_NoLostIncrement ==
  /\ increment = 2 + calls
  /\ \A t, u \in Tasks :
       (t # u /\ tasks[t].data # <<>> /\ tasks[u].data # <<>>) =>
         /\ At(tasks[t].data, 6) # At(tasks[u].data, 6)
         /\ tasks[t].built # tasks[u].built

C15_Witness ==
  /\ tasks[1].pc = "write"
  /\ tasks[2].pc = "sleep"
  /\ At(tasks[1].data, 6) = 3
  /\ At(tasks[2].data, 6) = 2
  /\ increment = 4

\* C16: frames reach the transport in the order of their sequence values,
\* also with several tasks: a frame built before another has its write
\* started before the other's, and the last frame written is the last built.
C16_WritesInBuildOrder ==
  /\ transport.writes > 0 => At(transport.data, 6) = (increment - 1) % 255
  /\ \A t, u \in Tasks :
       (InFlight(t) /\ InFlight(u) /\ tasks[t].built < tasks[u].built) =>
         (tasks[t].sent # 0 /\ tasks[t].sent < tasks[u].sent)

C16_Witness ==
  /\ tasks[1].pc = "write"
  /\ tasks[2].pc = "write"
  /\ tasks[2].built = 1
  /\ tasks[1].built = 2
  /\ tasks[2].sent < tasks[1].sent
  /\ transport.data = tasks[1].data

\* C17: read_battery does not wait for an answer: once its write is done it
\* ends after its sleep, whether or not any notification ever arrives, and
\* a notification handled during or after the sleep changes nothing in the
\* session.
C17_BatteryReadEnds ==
  /\ \A t \in Tasks : (tasks[t].pc = "sleep") ~> (tasks[t].pc = "idle")
  /\ [][ (last' # last /\ last'.op = "notification_handler")
           => UNCHANGED <<session, transport, tasks>> ]_vars

\* read_battery asleep on a client that has no notify characteristic
C17_Witness ==
  /\ tasks[1].pc = "sleep"
  /\ tasks[1].action = "read_battery"
  /\ characteristic_notify = None
  /\ ~notifying

====
